---- MODULE Spec2Model ----
(***************************************************************************)
(* Model of the two Pull-Up Club maintenance scripts:                      *)
(*   scripts/automations/daily_consistency_check.py                        *)
(*   scripts/automations/system_health_check.py                            *)
(* The backend is a test double: every remote call returns or raises, and  *)
(* the double records each call in `calls`.  Lines printed to stdout are   *)
(* recorded in `out`.                                                      *)
(***************************************************************************)
EXTENDS Integers, Sequences, FiniteSets, TLC

\* Largest number of rows a list-returning remote call hands back.
MaxRecords == 2

\* system_health_check.py:260  `email.get('failed', 0) > 10`
FailedLimit == 10

VARIABLES
    script,         \* which of the two scripts this run executes
    SUPABASE_KEY,   \* TRUE iff SUPABASE_SERVICE_ROLE_KEY is set (non-empty)
    DRY_RUN,        \* daily_consistency_check.py module constant DRY_RUN
    dry_run,        \* system_health_check.py args.dry_run
    pc,             \* position of main()
    calls,          \* remote calls received by the backend double, in order
    out,            \* set of (kinds of) lines printed
    exit_code,      \* value handed to sys.exit, -1 while running
    total_issues, total_fixed, details,      \* locals of the consistency main()
    missing, mismatches, pool_issues,        \* locals of the consistency main()
    result,                                  \* local of the consistency main()
    results, status                          \* locals of the health main()

vars == <<script, SUPABASE_KEY, DRY_RUN, dry_run, pc, calls, out, exit_code,
          total_issues, total_fixed, details, missing, mismatches, pool_issues,
          result, results, status>>

consistency_vars ==
    <<total_issues, total_fixed, details, missing, mismatches, pool_issues, result>>
health_vars == <<results, status>>
config_vars == <<script, SUPABASE_KEY, DRY_RUN, dry_run>>

----------------------------------------------------------------------------
(* Python dictionaries *)

EmptyDict == <<>>

\* d.get(k, default)
Get(d, k, default) == IF k \in DOMAIN d THEN d[k] ELSE default

\* d[k] = v
Put(d, k, v) == [x \in (DOMAIN d) \cup {k} |-> IF x = k THEN v ELSE d[x]]

\* number of entries of sequence s equal to v
RECURSIVE CountEq(_, _)
CountEq(s, v) ==
    IF s = <<>> THEN 0
    ELSE (IF Head(s) = v THEN 1 ELSE 0) + CountEq(Tail(s), v)

----------------------------------------------------------------------------
(* Responses of the backend double *)

\* str(e) of a raised exception; it may be the empty string
ExcMsgs == {"", "timeout"}

\* rows are identified by their position in the result
Rows(n) == [k \in 1..n |-> k]

Raises == {[kind |-> "raise", msg |-> m, data |-> <<>>] : m \in ExcMsgs}

\* result.data is None
NoneResponse == [kind |-> "none", msg |-> "", data |-> <<>>]

\* responses of a call that returns a list of rows (or a row count)
ListResponses ==
    Raises \cup {NoneResponse}
           \cup {[kind |-> "ok", msg |-> "", data |-> Rows(n)] : n \in 0..MaxRecords}

\* how the double logs a response
ResTag(resp) ==
    IF resp.kind = "raise" THEN "raise"
    ELSE IF resp.kind = "none" \/ Len(resp.data) = 0 THEN "empty"
    ELSE "data"

Call(fn, arg, resp) ==
    [fn |-> fn, arg |-> arg, res |-> ResTag(resp),
     n |-> IF resp.kind = "ok" THEN Len(resp.data) ELSE 0]

\* a mutating call on one row; res is the outcome the double produced
Mutation(fn, arg, res) == [fn |-> fn, arg |-> arg, res |-> res, n |-> 0]

\* `x.count or 1`: a missing count taken for one row
CountOrOne(resp) == IF resp.kind = "none" THEN 1 ELSE Len(resp.data)

\* `x.count or 0`
CountOrZero(resp) == IF resp.kind = "none" THEN 0 ELSE Len(resp.data)

\* `result.data if result.data else []`
DataOrEmpty(resp) ==
    IF resp.kind # "none" /\ Len(resp.data) > 0 THEN resp.data ELSE <<>>

----------------------------------------------------------------------------
(* daily_consistency_check.py *)

check_missing_earnings(resp) == DataOrEmpty(resp)

check_payout_mismatches(resp) == DataOrEmpty(resp)

check_pool_balance_issues(resp) == DataOrEmpty(resp)

\* outcomes of rpc("process_submission_earnings"): data.success is true,
\* data is empty or data.success is false, or the call raises
EarningsOutcomes == {"success", "no_success", "raise"}

\* outcomes of table("payout_requests").update(...).execute()
UpdateOutcomes == {"ok", "raise"}

RECURSIVE FixEarningsLoop(_, _, _, _)
FixEarningsLoop(submissions, outcomes, k, acc) ==
    IF k > Len(submissions) THEN acc
    ELSE LET o == outcomes[k]
             c == Mutation("process_submission_earnings", submissions[k], o)
         IN FixEarningsLoop(submissions, outcomes, k + 1,
                [fixed  |-> acc.fixed  + (IF o = "success" THEN 1 ELSE 0),
                 failed |-> acc.failed + (IF o = "success" THEN 0 ELSE 1),
                 calls  |-> Append(acc.calls, c)])

\* a loop that issues the call again for an item whose call raised
fix_missing_earnings_retry(submissions, outcomes) ==
    LET r == FixEarningsLoop(submissions, outcomes, 1,
                             [fixed |-> 0, failed |-> 0, calls |-> <<>>])
    IN [r EXCEPT !.calls = r.calls \o SelectSeq(r.calls, LAMBDA c : c.res = "raise")]

fix_missing_earnings(submissions, outcomes) ==
    FixEarningsLoop(submissions, outcomes, 1,
                    [fixed |-> 0, failed |-> 0, calls |-> <<>>])

RECURSIVE FixPayoutLoop(_, _, _, _)
FixPayoutLoop(ms, outcomes, k, acc) ==
    IF k > Len(ms) THEN acc
    ELSE LET o == outcomes[k]
             c == Mutation("payout_requests.update", ms[k], o)
         IN FixPayoutLoop(ms, outcomes, k + 1,
                [fixed  |-> acc.fixed  + (IF o = "ok" THEN 1 ELSE 0),
                 failed |-> acc.failed + (IF o = "ok" THEN 0 ELSE 1),
                 calls  |-> Append(acc.calls, c)])

fix_payout_mismatches(ms, outcomes) ==
    FixPayoutLoop(ms, outcomes, 1, [fixed |-> 0, failed |-> 0, calls |-> <<>>])

\* the repair batch run without looking at DRY_RUN
ShouldFix_always(dry) == TRUE

\* `if not DRY_RUN:` before each repair batch
ShouldFix(dry) == ~dry

\* `if total_issues > 0 and not DRY_RUN:` before log_check_result
ShouldLog(issues, dry) == issues > 0 /\ ~dry

\* an except branch that only prints
RecordCheckError_dropped(d, key, msg) == d

\* the except branch of a check: details[key] = str(e)
RecordCheckError(d, key, msg) == Put(d, key, msg)

\* a return value that is 1 only while unfixed issues remain
ConsistencyExit_unfixed(issues, fixedCount) == IF issues > fixedCount THEN 1 ELSE 0

\* main's return value, from total_issues (total_fixed is not looked at)
ConsistencyExit(issues, fixedCount) == IF issues > 0 THEN 1 ELSE 0

\* insert into monitoring.system_errors; an exception is caught and printed
log_check_result(outcome) ==
    [calls |-> <<Mutation("monitoring.system_errors.insert", 0, outcome)>>,
     out   |-> IF outcome = "raise" THEN {"Warning: Could not log"} ELSE {}]

get_client ==
    /\ pc = "start"
    /\ script = "consistency"
    /\ IF ~SUPABASE_KEY
       THEN pc' = "exited" /\ exit_code' = 1
            /\ out' = out \cup {"ERROR: key not set"}
       ELSE pc' = "check1" /\ exit_code' = exit_code /\ out' = out
    /\ UNCHANGED <<config_vars, calls, consistency_vars, health_vars>>

\* main, "Check 1: Missing earnings"
main_check1 ==
    /\ pc = "check1"
    /\ \E resp \in ListResponses :
         LET c == Call("get_submissions_missing_earnings", 0, resp) IN
         IF resp.kind = "raise"
         THEN /\ details' = RecordCheckError(details, "missing_earnings_error", resp.msg)
              /\ calls' = Append(calls, c)
              /\ out' = out \cup {"Check failed"}
              /\ UNCHANGED <<total_issues, total_fixed, missing, result>>
         ELSE LET m == check_missing_earnings(resp) IN
              /\ missing' = m
              /\ IF Len(m) > 0
                 THEN /\ total_issues' = total_issues + Len(m)
                      /\ out' = out \cup {"Found missing earnings"}
                      /\ IF ShouldFix(DRY_RUN)
                         THEN \E outcomes \in [1..Len(m) -> EarningsOutcomes] :
                                LET r == fix_missing_earnings(m, outcomes) IN
                                /\ calls' = Append(calls, c) \o r.calls
                                /\ result' = [fixed |-> r.fixed, failed |-> r.failed]
                                /\ total_fixed' = total_fixed + r.fixed
                                /\ details' = Put(Put(details, "missing_earnings", Len(m)),
                                                  "earnings_fixed", r.fixed)
                         ELSE /\ calls' = Append(calls, c)
                              /\ total_fixed' = total_fixed
                              /\ result' = result
                              /\ details' = Put(details, "missing_earnings", Len(m))
                 ELSE /\ out' = out \cup {"No issues found"}
                      /\ calls' = Append(calls, c)
                      /\ UNCHANGED <<total_issues, total_fixed, details, result>>
    /\ pc' = "check2"
    /\ UNCHANGED <<config_vars, exit_code, mismatches, pool_issues, health_vars>>

\* main, "Check 2: Payout mismatches"
main_check2 ==
    /\ pc = "check2"
    /\ \E resp \in ListResponses :
         LET c == Call("get_payout_mismatches", 0, resp) IN
         IF resp.kind = "raise"
         THEN /\ details' = RecordCheckError(details, "payout_mismatch_error", resp.msg)
              /\ calls' = Append(calls, c)
              /\ out' = out \cup {"Check failed"}
              /\ UNCHANGED <<total_issues, total_fixed, mismatches, result>>
         ELSE LET m == check_payout_mismatches(resp) IN
              /\ mismatches' = m
              /\ IF Len(m) > 0
                 THEN /\ total_issues' = total_issues + Len(m)
                      /\ out' = out \cup {"Found payout mismatches"}
                      /\ IF ShouldFix(DRY_RUN)
                         THEN \E outcomes \in [1..Len(m) -> UpdateOutcomes] :
                                LET r == fix_payout_mismatches(m, outcomes) IN
                                /\ calls' = Append(calls, c) \o r.calls
                                /\ result' = [fixed |-> r.fixed, failed |-> r.failed]
                                /\ total_fixed' = total_fixed + r.fixed
                                /\ details' = Put(Put(details, "payout_mismatches", Len(m)),
                                                  "payouts_fixed", r.fixed)
                         ELSE /\ calls' = Append(calls, c)
                              /\ total_fixed' = total_fixed
                              /\ result' = result
                              /\ details' = Put(details, "payout_mismatches", Len(m))
                 ELSE /\ out' = out \cup {"No issues found"}
                      /\ calls' = Append(calls, c)
                      /\ UNCHANGED <<total_issues, total_fixed, details, result>>
    /\ pc' = "check3"
    /\ UNCHANGED <<config_vars, exit_code, missing, pool_issues, health_vars>>

\* main, "Check 3: Pool balance issues"
main_check3 ==
    /\ pc = "check3"
    /\ \E resp \in ListResponses :
         LET c == Call("get_pool_balance_issues", 0, resp) IN
         /\ calls' = Append(calls, c)
         /\ IF resp.kind = "raise"
            THEN /\ details' = RecordCheckError(details, "pool_balance_error", resp.msg)
                 /\ out' = out \cup {"Check failed"}
                 /\ UNCHANGED <<total_issues, pool_issues>>
            ELSE LET p == check_pool_balance_issues(resp) IN
                 /\ pool_issues' = p
                 /\ IF Len(p) > 0
                    THEN /\ total_issues' = total_issues + Len(p)
                         /\ out' = out \cup {"Found pool balance issues"}
                         /\ details' = Put(details, "pool_issues", Len(p))
                    ELSE /\ out' = out \cup {"No issues found"}
                         /\ UNCHANGED <<total_issues, details>>
    /\ pc' = "summary"
    /\ UNCHANGED <<config_vars, exit_code, total_fixed, missing, mismatches, result,
                   health_vars>>

\* main, "Summary": optional log row, then the return value
main_summary ==
    /\ pc = "summary"
    /\ IF ShouldLog(total_issues, DRY_RUN)
       THEN \E outcome \in {"ok", "raise"} :
              LET l == log_check_result(outcome) IN
              /\ calls' = calls \o l.calls
              /\ out' = out \cup l.out
                            \cup {IF total_issues > 0 THEN "Issues were found"
                                                      ELSE "All checks passed"}
       ELSE /\ calls' = calls
            /\ out' = out \cup {IF total_issues > 0 THEN "Issues were found"
                                                     ELSE "All checks passed"}
    /\ exit_code' = ConsistencyExit(total_issues, total_fixed)
    /\ pc' = "done"
    /\ UNCHANGED <<config_vars, consistency_vars, health_vars>>

----------------------------------------------------------------------------
(* system_health_check.py *)

\* the structured result of rpc("run_system_health_check")
SqlData(st, dups, pools, payouts) ==
    [overall_status  |-> st,
     duplicate_pools |-> [duplicates_fixed |-> dups],
     pool_balances   |-> [pools_fixed |-> pools],
     monthly_payouts |-> [issues_found |-> payouts]]

SqlResponses ==
    {[kind |-> "raise", msg |-> m, data |-> SqlData("", 0, 0, 0)] : m \in ExcMsgs}
    \cup {[kind |-> k, msg |-> "", data |-> SqlData("", 0, 0, 0)] : k \in {"none", "empty"}}
    \cup {[kind |-> "ok", msg |-> "", data |-> SqlData(st, d, p, i)] :
            st \in {"healthy", "warning"}, d \in 0..1, p \in 0..1, i \in 0..1}

SqlCall(resp) ==
    [fn |-> "run_system_health_check", arg |-> 0,
     res |-> IF resp.kind = "raise" THEN "raise"
             ELSE IF resp.kind = "ok" THEN "data" ELSE "empty",
     n |-> IF resp.kind = "ok"
           THEN resp.data.duplicate_pools.duplicates_fixed
                + resp.data.pool_balances.pools_fixed
           ELSE 0]

run_sql_health_check(resp) ==
    IF resp.kind = "raise"
    THEN [result |-> [overall_status |-> "error", message |-> resp.msg],
          calls  |-> <<SqlCall(resp)>>,
          out    |-> {"ERROR: sql health"},
          raised |-> TRUE]
    ELSE IF resp.kind = "ok"
    THEN [result |-> resp.data,
          calls  |-> <<SqlCall(resp)>>,
          out    |-> (IF resp.data.duplicate_pools.duplicates_fixed > 0
                      THEN {"FIXED: duplicate pools removed"} ELSE {})
                     \cup
                     (IF resp.data.pool_balances.pools_fixed > 0
                      THEN {"FIXED: pool balances corrected"} ELSE {})
                     \cup
                     (IF resp.data.monthly_payouts.issues_found > 0
                      THEN {"WARNING: payout issues"} ELSE {}),
          raised |-> FALSE]
    ELSE [result |-> [overall_status |-> "error", message |-> "No data returned"],
          calls  |-> <<SqlCall(resp)>>,
          out    |-> {},
          raised |-> FALSE]

Repeat(v, n) == [k \in 1..n |-> v]

\* rows of email_notifications with sent_at null, by their status
EmailRowChoices ==
    {<<>>, <<"pending">>, <<"pending", "failed", "processing">>,
     Repeat("failed", FailedLimit), Repeat("failed", FailedLimit + 1)}

EmailResponses ==
    Raises \cup {NoneResponse}
           \cup {[kind |-> "ok", msg |-> "", data |-> rows] : rows \in EmailRowChoices}

check_email_queue_health(r1, r2) ==
    LET c1 == Call("email_notifications.select", 0, r1)
        c2 == Call("email_notifications.count_stuck", 0, r2)
        rows == IF r1.kind = "none" THEN <<>> ELSE r1.data
        pending_count == CountEq(rows, "pending")
        failed_count == CountEq(rows, "failed")
        stuck_count == CountOrZero(r2)
    IN IF r1.kind = "raise"
       THEN [result |-> [error |-> r1.msg], calls |-> <<c1>>,
             out |-> {"ERROR: email queue"}, raised |-> TRUE]
       ELSE IF r2.kind = "raise"
       THEN [result |-> [error |-> r2.msg], calls |-> <<c1, c2>>,
             out |-> {"ERROR: email queue"}, raised |-> TRUE]
       ELSE [result |-> [pending |-> pending_count, failed |-> failed_count,
                         stuck |-> stuck_count],
             calls  |-> <<c1, c2>>,
             out    |-> IF stuck_count > 0 THEN {"WARNING: emails stuck"} ELSE {},
             raised |-> FALSE]

check_monthly_graphics(r1, r2) ==
    LET c1 == Call("get_users_missing_graphics", 0, r1)
        c2 == Call("email_notifications.count_pending_graphic", 0, r2)
        miss == DataOrEmpty(r1)
        warn == IF Len(miss) > 0 THEN {"WARNING: users missing graphics"} ELSE {}
    IN IF r1.kind = "raise"
       THEN [result |-> [skipped |-> TRUE], calls |-> <<c1>>,
             out |-> {"Note: Graphics check skipped"}, raised |-> TRUE]
       ELSE IF r2.kind = "raise"
       THEN [result |-> [skipped |-> TRUE], calls |-> <<c1, c2>>,
             out |-> warn \cup {"Note: Graphics check skipped"}, raised |-> TRUE]
       ELSE [result |-> [month |-> "prev_month", missing_graphics |-> Len(miss),
                         pending_emails |-> CountOrZero(r2)],
             calls  |-> <<c1, c2>>,
             out    |-> warn,
             raised |-> FALSE]

check_edge_function_health(r1, r2) ==
    LET c1 == Call("submissions.select", 0, r1)
        c2 == Call("weekly_earnings.count", 0, r2)
        approved_count == IF r1.kind = "none" THEN 0 ELSE Len(r1.data)
        earnings_count == CountOrZero(r2)
    IN IF r1.kind = "raise"
       THEN [result |-> [error |-> r1.msg], calls |-> <<c1>>,
             out |-> {"ERROR: edge function"}, raised |-> TRUE]
       ELSE IF approved_count > 0
       THEN IF r2.kind = "raise"
            THEN [result |-> [error |-> r2.msg], calls |-> <<c1, c2>>,
                  out |-> {"ERROR: edge function"}, raised |-> TRUE]
            ELSE [result |-> [recent_approvals |-> approved_count, healthy |-> TRUE],
                  calls  |-> <<c1, c2>>,
                  out    |-> IF earnings_count < approved_count
                             THEN {"WARNING: approved submissions without earnings"}
                             ELSE {},
                  raised |-> FALSE]
       ELSE [result |-> [recent_approvals |-> approved_count, healthy |-> TRUE],
             calls  |-> <<c1>>,
             out    |-> {},
             raised |-> FALSE]

\* `sql.get('overall_status') != 'healthy'`
SqlIssue(sql) == Get(sql, "overall_status", "None") # "healthy"

\* `email.get('stuck', 0) > 1`
StuckIssue_off_by_one(email) == Get(email, "stuck", 0) > 1

\* `email.get('stuck', 0) > 0`
StuckIssue(email) == Get(email, "stuck", 0) > 0

\* `email.get('failed', 0) > 10`
FailedIssue(email) == Get(email, "failed", 0) > FailedLimit

\* `graphics.get('missing_graphics', 0) > 0`
GraphicsIssue(graphics) == Get(graphics, "missing_graphics", 0) > 0

\* `edge.get('error')`: a non-empty message
EdgeIssue(edge) == Get(edge, "error", "") # ""

\* the issue list built by generate_summary_report
SummaryIssues(res) ==
    LET sql == Get(res, "sql_health", EmptyDict)
        email == Get(res, "email_queue", EmptyDict)
        graphics == Get(res, "monthly_graphics", EmptyDict)
        edge == Get(res, "edge_functions", EmptyDict)
    IN (IF SqlIssue(sql) THEN {"SQL health check found issues"} ELSE {})
       \cup (IF StuckIssue(email) THEN {"emails stuck in queue"} ELSE {})
       \cup (IF FailedIssue(email) THEN {"failed emails"} ELSE {})
       \cup (IF GraphicsIssue(graphics) THEN {"users missing monthly graphics"} ELSE {})
       \cup (IF EdgeIssue(edge) THEN {"Edge function check error"} ELSE {})

generate_summary_report(res) ==
    IF SummaryIssues(res) # {} THEN "issues_found" ELSE "healthy"

\* a check without its try/except: its exception leaves main
AfterCheck_escape(next, raised) == IF raised THEN "crashed" ELSE next

\* main runs the checks one after the other; every check catches its own
\* exceptions, so main goes on to the next position whether or not one raised
AfterCheck(next, raised) == next

\* main's return value
HealthExit(st) == IF st = "healthy" THEN 0 ELSE 1

health_get_client ==
    /\ pc = "start"
    /\ script = "health"
    /\ IF ~SUPABASE_KEY
       THEN pc' = "exited" /\ exit_code' = 1
            /\ out' = out \cup {"ERROR: key not set"}
       ELSE pc' = "sql" /\ exit_code' = exit_code /\ out' = out
    /\ UNCHANGED <<config_vars, calls, consistency_vars, health_vars>>

\* results['sql_health'] = run_sql_health_check(supabase)
health_main_sql ==
    /\ pc = "sql"
    /\ \E resp \in SqlResponses :
         LET r == run_sql_health_check(resp) IN
         /\ results' = Put(results, "sql_health", r.result)
         /\ calls' = calls \o r.calls
         /\ out' = out \cup r.out
         /\ pc' = AfterCheck("email", r.raised)
    /\ UNCHANGED <<config_vars, exit_code, consistency_vars, status>>

\* results['email_queue'] = check_email_queue_health(supabase)
health_main_email ==
    /\ pc = "email"
    /\ \E r1 \in EmailResponses, r2 \in ListResponses :
         LET r == check_email_queue_health(r1, r2) IN
         /\ results' = Put(results, "email_queue", r.result)
         /\ calls' = calls \o r.calls
         /\ out' = out \cup r.out
         /\ pc' = AfterCheck("graphics", r.raised)
    /\ UNCHANGED <<config_vars, exit_code, consistency_vars, status>>

\* results['monthly_graphics'] = check_monthly_graphics(supabase)
health_main_graphics ==
    /\ pc = "graphics"
    /\ \E r1 \in ListResponses, r2 \in ListResponses :
         LET r == check_monthly_graphics(r1, r2) IN
         /\ results' = Put(results, "monthly_graphics", r.result)
         /\ calls' = calls \o r.calls
         /\ out' = out \cup r.out
         /\ pc' = AfterCheck("edge", r.raised)
    /\ UNCHANGED <<config_vars, exit_code, consistency_vars, status>>

\* results['edge_functions'] = check_edge_function_health(supabase)
health_main_edge ==
    /\ pc = "edge"
    /\ \E r1 \in ListResponses, r2 \in ListResponses :
         LET r == check_edge_function_health(r1, r2) IN
         /\ results' = Put(results, "edge_functions", r.result)
         /\ calls' = calls \o r.calls
         /\ out' = out \cup r.out
         /\ pc' = AfterCheck("report", r.raised)
    /\ UNCHANGED <<config_vars, exit_code, consistency_vars, status>>

\* status = generate_summary_report(results)
health_main_report ==
    /\ pc = "report"
    /\ status' = generate_summary_report(results)
    /\ out' = out \cup {IF SummaryIssues(results) # {} THEN "ISSUES FOUND"
                                                        ELSE "ALL SYSTEMS HEALTHY"}
    /\ pc' = "log"
    /\ UNCHANGED <<config_vars, calls, exit_code, consistency_vars, results>>

\* a log step whose failed insert turns the exit code to 1
health_main_log_unswallowed ==
    /\ pc = "log"
    /\ IF ~dry_run
       THEN \E outcome \in {"ok", "raise"} :
              /\ calls' = Append(calls,
                            Mutation("monitoring.system_health_checks.insert", 0, outcome))
              /\ exit_code' = IF outcome = "raise" THEN 1 ELSE HealthExit(status)
       ELSE calls' = calls /\ exit_code' = HealthExit(status)
    /\ pc' = "done"
    /\ UNCHANGED <<config_vars, out, consistency_vars, health_vars>>

\* the log row (skipped in a dry run, its exception passed over), then return
health_main_log ==
    /\ pc = "log"
    /\ IF ~dry_run
       THEN \E outcome \in {"ok", "raise"} :
              calls' = Append(calls,
                         Mutation("monitoring.system_health_checks.insert", 0, outcome))
       ELSE calls' = calls
    /\ exit_code' = HealthExit(status)
    /\ pc' = "done"
    /\ UNCHANGED <<config_vars, out, consistency_vars, health_vars>>

----------------------------------------------------------------------------
Init ==
    /\ script \in {"consistency", "health"}
    /\ SUPABASE_KEY \in BOOLEAN
    /\ DRY_RUN \in (IF script = "consistency" THEN BOOLEAN ELSE {FALSE})
    /\ dry_run \in (IF script = "health" THEN BOOLEAN ELSE {FALSE})
    /\ pc = "start"
    /\ calls = <<>>
    /\ out = {}
    /\ exit_code = -1
    /\ total_issues = 0
    /\ total_fixed = 0
    /\ details = EmptyDict
    /\ missing = <<>>
    /\ mismatches = <<>>
    /\ pool_issues = <<>>
    /\ result = [fixed |-> 0, failed |-> 0]
    /\ results = EmptyDict
    /\ status = "unset"

Next ==
    \/ get_client
    \/ main_check1
    \/ main_check2
    \/ main_check3
    \/ main_summary
    \/ health_get_client
    \/ health_main_sql
    \/ health_main_email
    \/ health_main_graphics
    \/ health_main_edge
    \/ health_main_report
    \/ health_main_log

Spec == Init /\ [][Next]_vars

\* every remote call returns or raises, so main always takes its next step
FairSpec == Spec /\ WF_vars(Next)

TypeOK ==
    pc \in {"start", "exited", "check1", "check2", "check3", "summary", "done",
            "sql", "email", "graphics", "edge", "report", "log", "crashed"}

----------------------------------------------------------------------------
(* Observations on the call log *)

CallsOf(fn) == SelectSeq(calls, LAMBDA c : c.fn = fn)

NumCalls(fn) == Len(CallsOf(fn))

\* rows returned by the (at most one) call of fn
Returned(fn) == IF NumCalls(fn) = 0 THEN 0 ELSE CallsOf(fn)[1].n

Raised(fn) == \E k \in 1..Len(calls) : calls[k].fn = fn /\ calls[k].res = "raise"

ReportFns ==
    {"get_submissions_missing_earnings", "get_payout_mismatches", "get_pool_balance_issues"}

ConsistencyMutatingFns ==
    {"process_submission_earnings", "payout_requests.update",
     "monitoring.system_errors.insert"}

HealthQueryFns ==
    {"email_notifications.select", "email_notifications.count_stuck",
     "get_users_missing_graphics", "email_notifications.count_pending_graphic",
     "submissions.select", "weekly_earnings.count"}

\* lines that report an issue
IssueLines ==
    {"Found missing earnings", "Found payout mismatches", "Found pool balance issues",
     "Check failed", "Issues were found", "ISSUES FOUND",
     "ERROR: sql health", "ERROR: email queue", "ERROR: edge function",
     "WARNING: payout issues", "FIXED: duplicate pools removed",
     "FIXED: pool balances corrected",
     "WARNING: emails stuck", "WARNING: users missing graphics",
     "WARNING: approved submissions without earnings", "Note: Graphics check skipped"}

ConsistencyDone == script = "consistency" /\ pc = "done"

HealthDone == script = "health" /\ pc = "done"

ReturnedRecords ==
    Returned("get_submissions_missing_earnings") + Returned("get_payout_mismatches")
        + Returned("get_pool_balance_issues")

----------------------------------------------------------------------------
\* C1: when the consistency main() returns, the exit code is 1 iff the three
\* report calls returned at least one record in total, and 0 otherwise,
\* whatever the mode, the repair outcomes and the outcome of the log insert.
C1_ExitCodeIffIssues ==
    ConsistencyDone =>
        /\ exit_code \in {0, 1}
        /\ (exit_code = 1) <=> (ReturnedRecords > 0)

\* a live run in which records were found, no repair succeeded and the log
\* insert failed
C1_Witness ==
    /\ ConsistencyDone /\ ~DRY_RUN /\ exit_code = 1
    /\ total_fixed = 0 /\ NumCalls("process_submission_earnings") > 0
    /\ Raised("monitoring.system_errors.insert")

\* C2: in a dry run of the consistency checker no mutating call is issued
\* (no process_submission_earnings, no payout_requests update, no log insert)
\* and the total fixed count stays 0, whatever the reports return.
C2_DryRunNoMutation ==
    (script = "consistency" /\ DRY_RUN) =>
        /\ \A k \in 1..Len(calls) : calls[k].fn \notin ConsistencyMutatingFns
        /\ total_fixed = 0

\* a finished dry run in which all three reports returned records
C2_Witness ==
    /\ ConsistencyDone /\ DRY_RUN
    /\ Len(missing) > 0 /\ Len(mismatches) > 0 /\ Len(pool_issues) > 0

\* C3: in a live run, a missing-earnings report of N records leads to exactly
\* N process_submission_earnings calls, one per record, and a payout report of
\* M records to exactly M update calls, one per record, failures included;
\* fixed + failed is the batch size; after the pool report only the log row is
\* written.
C3_OneRepairPerRecord ==
    (script = "consistency" /\ ~DRY_RUN) =>
        /\ \A k \in 1..MaxRecords + 1 :
             /\ Cardinality({j \in 1..Len(calls) :
                    calls[j].fn = "process_submission_earnings" /\ calls[j].arg = k})
                    = (IF k <= Returned("get_submissions_missing_earnings")
                          /\ pc \notin {"start", "check1"} THEN 1 ELSE 0)
             /\ Cardinality({j \in 1..Len(calls) :
                    calls[j].fn = "payout_requests.update" /\ calls[j].arg = k})
                    = (IF k <= Returned("get_payout_mismatches")
                          /\ pc \notin {"start", "check1", "check2"} THEN 1 ELSE 0)
        /\ (pc = "check2" /\ Len(missing) > 0) =>
               result.fixed + result.failed = Len(missing)
        /\ (pc = "check3" /\ Len(mismatches) > 0) =>
               result.fixed + result.failed = Len(mismatches)
        /\ \A j, k \in 1..Len(calls) :
               (calls[j].fn = "get_pool_balance_issues" /\ j < k) =>
                   calls[k].fn = "monitoring.system_errors.insert"

\* a finished live run with two records in each batch, a failed repair in each,
\* and pool issues reported
C3_Witness ==
    /\ ConsistencyDone /\ ~DRY_RUN
    /\ Len(missing) = 2 /\ Len(mismatches) = 2 /\ Len(pool_issues) > 0
    /\ Raised("process_submission_earnings")
    /\ Raised("payout_requests.update")

ErrorKey(fn) ==
    IF fn = "get_submissions_missing_earnings" THEN "missing_earnings_error"
    ELSE IF fn = "get_payout_mismatches" THEN "payout_mismatch_error"
    ELSE "pool_balance_error"

CountKey(fn) ==
    IF fn = "get_submissions_missing_earnings" THEN "missing_earnings"
    ELSE IF fn = "get_payout_mismatches" THEN "payout_mismatches"
    ELSE "pool_issues"

\* C4: when a report call of the consistency checker raises, that check adds
\* nothing to the issue count, its error key is in details, the later checks
\* still run, and the run ends with an exit code.
C4_ReportErrorContained ==
    ConsistencyDone =>
        \A fn \in ReportFns :
            Raised(fn) =>
                /\ ErrorKey(fn) \in DOMAIN details
                /\ CountKey(fn) \notin DOMAIN details
                /\ total_issues = Len(missing) + Len(mismatches) + Len(pool_issues)
                /\ \A g \in ReportFns : NumCalls(g) = 1
                /\ exit_code \in {0, 1}

\* the first report raised and the two later ones still returned records
C4_Witness ==
    /\ ConsistencyDone
    /\ Raised("get_submissions_missing_earnings")
    /\ Len(mismatches) > 0 /\ Len(pool_issues) > 0
    /\ total_issues = Len(mismatches) + Len(pool_issues)

\* every query of the run came back empty
AllQueriesEmpty ==
    \A k \in 1..Len(calls) :
        calls[k].fn \in ReportFns \cup HealthQueryFns \cup {"run_system_health_check"}
            => calls[k].res = "empty"

NoIssueReported == exit_code = 0 /\ out \cap IssueLines = {}

\* C5 as stated: a run of either script in which every remote call returns an
\* empty result ends with exit code 0 and reports no issue.
C5_EmptyMeansClean ==
    (pc = "done" /\ AllQueriesEmpty) => NoIssueReported

\* C5 amended: a consistency run in which every remote call returns an empty
\* result ends with exit code 0 and reports no issue; a health run in which
\* every remote call returns an empty result reports the empty result of the
\* aggregate health function as its single issue and ends with exit code 1.
C5_EmptyMeansCleanAmended ==
    /\ (ConsistencyDone /\ AllQueriesEmpty) => NoIssueReported
    /\ (HealthDone /\ AllQueriesEmpty) =>
           /\ exit_code = 1
           /\ status = "issues_found"
           /\ SummaryIssues(results) = {"SQL health check found issues"}
           /\ out \cap IssueLines = {"ISSUES FOUND"}

\* a finished live health run in which every query came back empty
C5_Witness ==
    /\ HealthDone /\ AllQueriesEmpty /\ ~dry_run
    /\ NumCalls("email_notifications.count_stuck") = 1
    /\ NumCalls("email_notifications.count_pending_graphic") = 1
    /\ NumCalls("submissions.select") = 1

HealthSummarized == script = "health" /\ pc \in {"log", "done"}

\* C6: once the summary is generated, a reported stuck count above 0 gives
\* "issues_found", and four sub-checks without a problem (SQL status healthy,
\* stuck = 0, failed <= 10, missing_graphics = 0, no edge-function error) give
\* "healthy".
C6_StuckAndAllClear ==
    HealthSummarized =>
        LET sql == results["sql_health"]
            email == results["email_queue"]
            graphics == results["monthly_graphics"]
            edge == results["edge_functions"]
        IN /\ ("stuck" \in DOMAIN email /\ email["stuck"] > 0) => status = "issues_found"
           /\ ( /\ sql["overall_status"] = "healthy"
                /\ "stuck" \in DOMAIN email /\ email["stuck"] = 0
                /\ email["failed"] <= FailedLimit
                /\ "missing_graphics" \in DOMAIN graphics
                /\ graphics["missing_graphics"] = 0
                /\ "error" \notin DOMAIN edge ) => status = "healthy"

\* both cases occur: stuck emails with everything else fine, and ten failed
\* emails with everything fine
C6_Witness ==
    /\ HealthDone
    /\ "stuck" \in DOMAIN results["email_queue"]
    /\ results["email_queue"]["failed"] = FailedLimit
    /\ results["email_queue"]["stuck"] = 0
    /\ results["sql_health"]["overall_status"] = "healthy"
    /\ "missing_graphics" \in DOMAIN results["monthly_graphics"]
    /\ results["monthly_graphics"]["missing_graphics"] = 0
    /\ "error" \notin DOMAIN results["edge_functions"]
    /\ status = "healthy"

\* a sub-check of the health checker produced a warning or an error
Concern ==
    \/ SqlIssue(results["sql_health"])
    \/ Get(results["email_queue"], "stuck", 0) > 0
    \/ Get(results["email_queue"], "failed", 0) > 0
    \/ "error" \in DOMAIN results["email_queue"]
    \/ Get(results["monthly_graphics"], "missing_graphics", 0) > 0
    \/ "skipped" \in DOMAIN results["monthly_graphics"]
    \/ "error" \in DOMAIN results["edge_functions"]
    \/ "WARNING: approved submissions without earnings" \in out
    \/ "WARNING: payout issues" \in out

\* C7: the overall status is "issues_found" whenever a sub-check raised a
\* concern and "healthy" only when none did.
C7_StatusReflectsConcerns ==
    HealthSummarized => (status = "issues_found" <=> Concern)

InsertFn == "monitoring.system_health_checks.insert"

\* C8: the health main() returns 0 iff the status is "healthy" and 1
\* otherwise; a live run attempts exactly one log insert, as its last remote
\* call and after the summary, and the outcome of the insert changes neither
\* the status nor the exit code.
C8_ExitAndLog ==
    /\ HealthDone =>
          /\ exit_code \in {0, 1}
          /\ (exit_code = 0) <=> (status = "healthy")
          /\ status = generate_summary_report(results)
          /\ NumCalls(InsertFn) = (IF dry_run THEN 0 ELSE 1)
          /\ ~dry_run => calls[Len(calls)].fn = InsertFn
    /\ (script = "health" /\ pc # "done") => NumCalls(InsertFn) = 0

\* a healthy live run whose log insert failed
C8_Witness ==
    /\ HealthDone /\ ~dry_run /\ Raised(InsertFn)
    /\ status = "healthy" /\ exit_code = 0

\* a call of the aggregate health function that removed duplicate pools or
\* corrected pool balances (n is the number of repairs it reported)
RepairsData(c) == c.fn = "run_system_health_check" /\ c.n > 0

\* C9: in a dry run of the health checker no mutating call is issued, neither
\* the log insert nor a remote call that repairs data.
C9_HealthDryRunNoMutation ==
    (script = "health" /\ dry_run) =>
        \A k \in 1..Len(calls) : calls[k].fn # InsertFn /\ ~RepairsData(calls[k])

\* the first remote call of each of the four checks
CheckStarts ==
    <<"run_system_health_check", "email_notifications.select",
      "get_users_missing_graphics", "submissions.select">>

StartedChecks ==
    LET started == SelectSeq(calls, LAMBDA c : \E k \in 1..4 : c.fn = CheckStarts[k])
    IN [k \in 1..Len(started) |-> started[k].fn]

ChecksDue ==
    IF pc \in {"start", "exited", "sql"} THEN 0
    ELSE IF pc = "email" THEN 1
    ELSE IF pc = "graphics" THEN 2
    ELSE IF pc = "edge" THEN 3
    ELSE 4

ChecksInOrder ==
    script = "health" =>
        /\ pc # "crashed"
        /\ StartedChecks = SubSeq(CheckStarts, 1, ChecksDue)
        /\ status # "unset" => Len(StartedChecks) = 4

\* C10: the four checks of the health checker start exactly once each, in the
\* order SQL health, email queue, monthly graphics, edge functions, the
\* summary comes after all four whichever remote calls raise, and every run
\* past the credential check ends with exit code 0 or 1.
C10_OrderAndTermination ==
    /\ []ChecksInOrder
    /\ (script = "health" /\ pc = "sql") ~> (pc = "done" /\ exit_code \in {0, 1})

\* a finished run in which all four checks raised
C10_Witness ==
    /\ HealthDone
    /\ \A k \in 1..4 : Raised(CheckStarts[k])
====
